---- MODULE Spec2Model ----
(***************************************************************************)
(* LedgerScribe (app.py): one Streamlit session that uploads an invoice,   *)
(* extracts its fields through a language-model call, lets the user edit   *)
(* line items, suggests a journal entry and, on confirmation, appends rows *)
(* to the ledger and inventory files.                                      *)
(*                                                                         *)
(* Conventions of the model                                                *)
(*  - money is an integer number of hundredths (float 20.0 is 2000);       *)
(*  - a Python dict is a function whose DOMAIN is the set of its keys;     *)
(*  - a JSON scalar that the code parses is [kind, chars, num]: a string   *)
(*    is its sequence of characters, a number its value, null neither;     *)
(*  - a text that the code only strips is [lead, body, trail]: the count   *)
(*    of whitespace characters before and after its body;                  *)
(*  - a spreadsheet cell that may be empty is [set, val].                  *)
(***************************************************************************)
EXTENDS Integers, Sequences, FiniteSets, TLC

VARIABLES
    invoice_text,      \* st.session_state["invoice_text"]
    extracted_data,    \* st.session_state["extracted_data"]
    journal_entries,   \* st.session_state["journal_entries"]
    category,          \* st.session_state["category"] (key absent: NoCategory)
    ledger,            \* outputs/ledger.xlsx: [exists, rows]
    inventory,         \* outputs/inventory.xlsx: [exists, rows]
    last,              \* the handler that ran last, its inputs and the message it showed
    extracted_from,    \* history: the invoice whose extraction was stored last
    suggested_for,     \* history: the invoice for which entries were suggested last
    saves,             \* history: how many times this session showed "Ledger updated."
    tab_pc,            \* two browser tabs: each tab's position inside its Confirm handler
    tab_session,       \* each tab's session state as read by its Confirm handler
    tab_existing,      \* each tab's local `existing` (ledger) or `inv_df` (inventory)
    acked,             \* history: the rows of every Confirm that showed "Ledger updated.", earlier sessions' first
    overlapped         \* history: some Confirm started while another tab's Confirm was running

vars == <<invoice_text, extracted_data, journal_entries, category, ledger,
          inventory, last, extracted_from, suggested_for, saves, tab_pc, tab_session, tab_existing,
          acked, overlapped>>

session_vars == <<invoice_text, extracted_data, journal_entries, category,
                  last, extracted_from, suggested_for, saves>>

tab_vars == <<tab_pc, tab_session, tab_existing, acked, overlapped>>

----------------------------------------------------------------------------
(* Bounds of the model *)

MaxSaves == 1
MaxTabSaves == 2
MaxItems == 1
MaxEntries == 2

----------------------------------------------------------------------------
(* Python values *)

EmptyDict == [k \in {} |-> 0]

Get(d, k, default) == IF k \in DOMAIN d THEN d[k] ELSE default

Put(d, k, v) == [y \in DOMAIN d \cup {k} |-> IF y = k THEN v ELSE d[y]]

Truthy(d) == DOMAIN d /= {}

JStr(cs) == [kind |-> "str", chars |-> cs, num |-> 0]

JNum(n) == [kind |-> "num", chars |-> << >>, num |-> n]

JNull == [kind |-> "null", chars |-> << >>, num |-> 0]

Txt(l, b, r) == [lead |-> l, body |-> b, trail |-> r]

None == [set |-> FALSE, val |-> 0]

Some(v) == [set |-> TRUE, val |-> v]

NoCategory == "<no category>"

NoFile == [exists |-> FALSE, rows |-> << >>]

DigitVal ==
    ("0" :> 0 @@ "1" :> 1 @@ "2" :> 2 @@ "3" :> 3 @@ "4" :> 4 @@
     "5" :> 5 @@ "6" :> 6 @@ "7" :> 7 @@ "8" :> 8 @@ "9" :> 9)

\* str.replace(ch, "")
Remove(cs, ch) == SelectSeq(cs, LAMBDA c : c /= ch)

RECURSIVE StripChars(_)
\* str.strip() on a sequence of characters
StripChars(cs) ==
    IF cs = << >> THEN cs
    ELSE IF Head(cs) = " " THEN StripChars(Tail(cs))
    ELSE IF cs[Len(cs)] = " " THEN StripChars(SubSeq(cs, 1, Len(cs) - 1))
    ELSE cs

\* str.strip() on a text
Strip(t) == t.body

RECURSIVE DigitsValue(_)
DigitsValue(cs) ==
    IF cs = << >> THEN 0
    ELSE 10 * DigitsValue(SubSeq(cs, 1, Len(cs) - 1)) + DigitVal[cs[Len(cs)]]

IsDigits(cs) == cs /= << >> /\ \A i \in 1..Len(cs) : cs[i] \in DOMAIN DigitVal

\* float(s): surrounding whitespace is accepted; anything but digits raises
\* ValueError (the model's numeric texts carry no sign, point or exponent).
ParseFloat(cs) ==
    LET t == StripChars(cs)
    IN  IF IsDigits(t) THEN [ok |-> TRUE, val |-> 100 * DigitsValue(t)]
        ELSE [ok |-> FALSE, val |-> 0]

\* int(x) of a JSON value: an integer is itself, a string of digits its value;
\* any other string raises ValueError and None raises TypeError.
ParseInt(j) ==
    IF j.kind = "num" THEN [ok |-> TRUE, val |-> j.num]
    ELSE IF j.kind = "str" /\ IsDigits(StripChars(j.chars))
         THEN [ok |-> TRUE, val |-> DigitsValue(StripChars(j.chars))]
    ELSE [ok |-> FALSE, val |-> 0]

\* round(a / q, 2) with a in hundredths: the nearest hundredth, ties to even
RoundDiv(a, q) ==
    LET lo == a \div q
        r2 == 2 * (a % q)
    IN  IF r2 > q \/ (r2 = q /\ lo % 2 = 1) THEN lo + 1 ELSE lo

UnitCost(amount, quantity) ==
    IF quantity /= 0 THEN RoundDiv(amount, quantity) ELSE 0

RECURSIVE SumAmounts(_)
SumAmounts(items) ==
    IF items = << >> THEN 0 ELSE Head(items).amount + SumAmounts(Tail(items))

VENDOR_CATEGORY_MAP ==
    ("ABCD" :> "Office Supplies" @@ "Google" :> "IT Services" @@
     "Staples" :> "Office Supplies")

----------------------------------------------------------------------------
(* Inputs: what the collaborators return and what the user types *)

Usd(cs) == JStr(<<"$">> \o cs)

\* Upload: the concatenated text of the pages
Texts == {"INVOICE TEXT"}

WidgetRaw ==
    [description |-> "Widget", quantity |-> JNum(3),
     amount |-> Usd(<<"1", ",", "0", "0", "0">>)]

BoltRaw == [description |-> "Bolt", amount |-> Usd(<<"5">>)]

GasketRaw ==
    [description |-> "Gasket", quantity |-> JStr(<<"0">>), amount |-> JStr(<<"7">>)]

NutRaw(quantity, amount) ==
    [description |-> "Nut", quantity |-> quantity, amount |-> amount]

Invoice1 ==
    [invoice_number |-> "INV-1", invoice_date |-> "Jan 5, 2024",
     vendor_name |-> Txt(0, "Google", 1), line_items |-> <<WidgetRaw>>,
     total_amount |-> Usd(<<"1", ",", "0", "0", "0">>)]

Invoice2 ==
    [invoice_number |-> "INV-2", vendor_name |-> Txt(0, "Acme", 0),
     line_items |-> <<BoltRaw>>, total_amount |-> JStr(<<"n", "/", "a">>)]

BadAmount ==
    [invoice_number |-> "INV-4", vendor_name |-> Txt(0, "Acme", 0),
     line_items |-> <<BoltRaw, NutRaw(JNum(2), JStr(<<"b", "a", "d">>))>>]

NumericAmount ==
    [invoice_number |-> "INV-5", line_items |-> <<NutRaw(JNum(2), JNum(700))>>]

BadQuantity ==
    [invoice_number |-> "INV-6",
     line_items |-> <<GasketRaw, NutRaw(JStr(<<"t", "w", "o">>), Usd(<<"7">>))>>]

NullQuantity ==
    [invoice_number |-> "INV-7", line_items |-> <<NutRaw(JNull, Usd(<<"7">>))>>]

\* Field-extraction collaborator: the call raises, or returns text that is no
\* JSON, a JSON array, or a JSON object
ExtractReplies ==
    {[kind |-> "raise", data |-> EmptyDict],
     [kind |-> "not json", data |-> EmptyDict],
     [kind |-> "array", data |-> EmptyDict]}
    \cup {[kind |-> "object", data |-> d] :
            d \in {EmptyDict, Invoice1, Invoice2, BadAmount, NumericAmount,
                   BadQuantity, NullQuantity}}

\* Category-suggestion collaborator: the call raises, returns a response
\* without message content, or returns a text
SuggestReplies ==
    {[kind |-> "raise", label |-> Txt(0, "", 0)],
     [kind |-> "no content", label |-> Txt(0, "", 0)],
     [kind |-> "text", label |-> Txt(1, "Inventory Purchases", 1)],
     [kind |-> "text", label |-> Txt(2, "", 0)]}

\* 'Add Item' form
ItemDescriptions == {"", "Bolt"}

ItemQuantities == {1}

ItemAmounts == {0, 500}

\* Journal-entry editor: a row the user adds
UserRows == {[debit |-> "Rent", credit |-> "Cash", amount |-> 4200]}

----------------------------------------------------------------------------
(* Extract Invoice Fields *)

NormalizeItem(item) ==
    LET raw == Get(item, "amount", Usd(<<"0">>))
        amt == IF raw.kind = "str"
               THEN ParseFloat(Remove(Remove(raw.chars, "$"), ","))
               ELSE [ok |-> FALSE, val |-> 0]
        qty == ParseInt(Get(item, "quantity", JNum(1)))
    IN  IF ~amt.ok THEN [ok |-> FALSE, item |-> item]
        ELSE IF ~qty.ok THEN [ok |-> FALSE, item |-> item]
        ELSE [ok |-> TRUE,
              item |-> Put(Put(Put(item, "amount", amt.val), "quantity", qty.val),
                           "unit_cost", UnitCost(amt.val, qty.val))]

RECURSIVE NormalizeItems(_)
NormalizeItems(items) ==
    IF items = << >> THEN [ok |-> TRUE, items |-> << >>]
    ELSE LET h == NormalizeItem(Head(items))
             t == NormalizeItems(Tail(items))
         IN  [ok |-> h.ok /\ t.ok, items |-> <<h.item>> \o t.items]

\* The try block: [ok, data]; ok is FALSE when anything in it raises
ExtractOutcome(reply) ==
    IF reply.kind /= "object" THEN [ok |-> FALSE, data |-> EmptyDict]
    ELSE LET n == NormalizeItems(Get(reply.data, "line_items", << >>))
         IN  [ok |-> n.ok,
              data |-> IF n.ok /\ "line_items" \in DOMAIN reply.data
                       THEN Put(reply.data, "line_items", n.items)
                       ELSE reply.data]

\* The invoice a reply is about
InvoiceOf(reply) == Get(reply.data, "invoice_number", "(no number)")

StoredAfterExtract_Reset(out, old) == IF out.ok THEN out.data ELSE EmptyDict

\* st.session_state["extracted_data"] after the handler
StoredAfterExtract(out, old) == IF out.ok THEN out.data ELSE old

ExtractFields(reply) ==
    /\ invoice_text /= ""
    /\ LET out == ExtractOutcome(reply)
       IN  /\ extracted_data' = StoredAfterExtract(out, extracted_data)
           /\ extracted_from' = IF out.ok THEN InvoiceOf(reply) ELSE extracted_from
           /\ last' = [op |-> "Extract",
                       msg |-> IF out.ok THEN "success" ELSE "error"]
    /\ UNCHANGED <<invoice_text, journal_entries, category, ledger, inventory,
                   suggested_for, saves>>
    /\ UNCHANGED tab_vars

----------------------------------------------------------------------------
(* Upload Invoice *)

\* pdfplumber reads the file: the session text becomes the pages' text
Upload(text) ==
    /\ invoice_text' = text
    /\ last' = [op |-> "Upload", msg |-> "success"]
    /\ UNCHANGED <<extracted_data, journal_entries, category, ledger, inventory,
                   extracted_from, suggested_for, saves>>
    /\ UNCHANGED tab_vars

\* pdfplumber raises: "PDF Read Error"
UploadError ==
    /\ last' = [op |-> "Upload", msg |-> "error"]
    /\ UNCHANGED <<invoice_text, extracted_data, journal_entries, category,
                   ledger, inventory, extracted_from, suggested_for, saves>>
    /\ UNCHANGED tab_vars

----------------------------------------------------------------------------
(* Invoice Details: line items and the invoice form *)

LineItems(data) == Get(data, "line_items", << >>)

RemoveAt(s, i) == SubSeq(s, 1, i - 1) \o SubSeq(s, i + 1, Len(s))

NewItem(desc, qty, amount) ==
    [description |-> desc, quantity |-> qty, amount |-> amount,
     unit_cost |-> IF qty > 0 THEN RoundDiv(amount, qty) ELSE 0]

\* 'Add Item': a row with a description and a positive amount is appended
AddItem(desc, qty, amount) ==
    /\ Truthy(extracted_data)
    /\ Len(LineItems(extracted_data)) < MaxItems
    /\ extracted_data' =
         IF desc /= "" /\ amount > 0
         THEN Put(extracted_data, "line_items",
                  Append(LineItems(extracted_data), NewItem(desc, qty, amount)))
         ELSE extracted_data
    /\ last' = [op |-> "AddItem", msg |-> "none"]
    /\ UNCHANGED <<invoice_text, journal_entries, category, ledger, inventory,
                   extracted_from, suggested_for, saves>>
    /\ UNCHANGED tab_vars

\* The delete button of row idx
DeleteItem(idx) ==
    /\ Truthy(extracted_data)
    /\ idx \in 1..Len(LineItems(extracted_data))
    /\ extracted_data' = Put(extracted_data, "line_items",
                             RemoveAt(LineItems(extracted_data), idx))
    /\ last' = [op |-> "DeleteItem", msg |-> "none"]
    /\ UNCHANGED <<invoice_text, journal_entries, category, ledger, inventory,
                   extracted_from, suggested_for, saves>>
    /\ UNCHANGED tab_vars

\* The total the page computes on every run and shows in the disabled field
total_amount == SumAmounts(LineItems(extracted_data))

Today == "2026-11-05"

\* pd.to_datetime(raw, errors="coerce"), today when it is NaT, then
\* strftime("%Y-%m-%d")
FormDate(raw) ==
    IF raw \in {"Jan 5, 2024", "2024-01-05"} THEN "2024-01-05" ELSE Today

\* 'Process Invoice': the form's fields and the computed total are stored
ProcessInvoice(invoice_number, vendor_name) ==
    /\ Truthy(extracted_data)
    /\ extracted_data' =
         Put(Put(Put(Put(extracted_data,
             "invoice_number", invoice_number),
             "invoice_date", FormDate(Get(extracted_data, "invoice_date", ""))),
             "vendor_name", vendor_name),
             "total_amount", JNum(total_amount))
    /\ last' = [op |-> "Process", msg |-> "success"]
    /\ UNCHANGED <<invoice_text, journal_entries, category, ledger, inventory,
                   extracted_from, suggested_for, saves>>
    /\ UNCHANGED tab_vars

----------------------------------------------------------------------------
(* Suggest Journal Entries *)

\* str(amount_val).replace("$", "").replace(",", "").strip(), then float() or
\* 0.0: a number prints and parses back to itself, None prints as "None"
AmountOf(val) ==
    IF val.kind = "num" THEN val.num
    ELSE IF val.kind = "str"
         THEN LET p == ParseFloat(StripChars(Remove(Remove(val.chars, "$"), ",")))
              IN  IF p.ok THEN p.val ELSE 0
    ELSE 0

\* VENDOR_CATEGORY_MAP.get(vendor), else the collaborator's stripped answer,
\* else "Uncategorized" when the call or the reading of its answer raises
ResolveCategory(vendor, reply) ==
    IF vendor \in DOMAIN VENDOR_CATEGORY_MAP THEN VENDOR_CATEGORY_MAP[vendor]
    ELSE IF reply.kind = "text" THEN Strip(reply.label)
    ELSE "Uncategorized"

SuggestedEntries(cat, amount) ==
    <<[debit |-> cat, credit |-> "Accounts Payable", amount |-> amount]>>

Suggest(reply) ==
    /\ IF ~Truthy(extracted_data)
       THEN /\ last' = [op |-> "Suggest", msg |-> "warning"]
            /\ UNCHANGED <<journal_entries, category, suggested_for>>
       ELSE LET amount == AmountOf(Get(extracted_data, "total_amount", JNum(0)))
                vendor == Strip(Get(extracted_data, "vendor_name", Txt(0, "", 0)))
                cat == ResolveCategory(vendor, reply)
            IN  /\ journal_entries' = SuggestedEntries(cat, amount)
                /\ category' = cat
                /\ suggested_for' = extracted_from
                /\ last' = [op |-> "Suggest", msg |-> "success"]
    /\ UNCHANGED <<invoice_text, extracted_data, ledger, inventory,
                   extracted_from, saves>>
    /\ UNCHANGED tab_vars

----------------------------------------------------------------------------
(* Journal-entry editor and Confirm and Save to Ledger *)

\* st.data_editor over the session's entries with num_rows="dynamic": the
\* entries as they are, with a row added, with a row deleted or with an amount
\* retyped.  An empty list has no columns to fill in: the editor returns it.
EditorResults(entries) ==
    IF entries = << >> THEN {<< >>}
    ELSE {entries}
         \cup {Append(entries, u) : u \in {r \in UserRows : Len(entries) < MaxEntries}}
         \cup {RemoveAt(entries, i) : i \in 1..Len(entries)}

RECURSIVE MaxSr(_)
\* existing["sr_no"].max()
MaxSr(rows) ==
    IF Len(rows) = 1 THEN rows[1].sr_no
    ELSE LET m == MaxSr(Tail(rows))
         IN  IF rows[1].sr_no > m THEN rows[1].sr_no ELSE m

LastSr_NoIncrement(file) == IF file.exists THEN MaxSr(file.rows) ELSE 1

\* last_sr: 1 without a ledger file, else one more than the largest sr_no
LastSr(file) == IF file.exists THEN MaxSr(file.rows) + 1 ELSE 1

RECURSIVE NewRows_BothSides(_, _, _, _)
NewRows_BothSides(entries, sr, date, ref) ==
    IF entries = << >> THEN << >>
    ELSE LET e == Head(entries)
         IN  <<[sr_no |-> sr, date |-> date, reference |-> ref,
                description |-> e.debit, debit |-> Some(e.amount),
                credit |-> Some(e.amount)],
               [sr_no |-> sr + 1, date |-> date, reference |-> ref,
                description |-> e.credit, debit |-> None,
                credit |-> Some(e.amount)]>>
             \o NewRows_BothSides(Tail(entries), sr + 2, date, ref)

RECURSIVE NewRows(_, _, _, _)
\* The loop over edited_entries: a debit row then a credit row per entry.
\* A row is the cells to_excel writes: None (and NaN, read back) is the empty cell.
NewRows(entries, sr, date, ref) ==
    IF entries = << >> THEN << >>
    ELSE LET e == Head(entries)
         IN  <<[sr_no |-> sr, date |-> date, reference |-> ref,
                description |-> e.debit, debit |-> Some(e.amount),
                credit |-> None],
               [sr_no |-> sr + 1, date |-> date, reference |-> ref,
                description |-> e.credit, debit |-> None,
                credit |-> Some(e.amount)]>>
             \o NewRows(Tail(entries), sr + 2, date, ref)

Combined_NewOnly(existing, new_rows) == [exists |-> TRUE, rows |-> new_rows]

\* pd.concat([existing, new_df]) written over the file
Combined(existing, new_rows) ==
    [exists |-> TRUE, rows |-> existing.rows \o new_rows]

InvoiceDate(data) == Get(data, "invoice_date", "Enter invoice date")

InvoiceRef(data) == Get(data, "invoice_number", "unknown")

SavedLedger_NewFirst(existing, entries, data) ==
    [exists |-> TRUE,
     rows |-> NewRows(entries, LastSr(existing), InvoiceDate(data), InvoiceRef(data))
              \o existing.rows]

\* The ledger file after the handler has read `existing` and written `combined`
SavedLedger(existing, entries, data) ==
    Combined(existing,
             NewRows(entries, LastSr(existing), InvoiceDate(data), InvoiceRef(data)))

InventoryRow(item, ref, date) ==
    [description |-> item.description, quantity |-> item.quantity,
     amount |-> item.amount, invoice_number |-> ref, invoice_date |-> date]

\* st.session_state.get("category") == "Inventory Purchases"
SyncsInventory(cat) == cat = "Inventory Purchases"

\* The inventory file after the sync has read `inv_df` and written it back
SavedInventory(inv_df, data) ==
    [exists |-> TRUE,
     rows |-> inv_df.rows \o
              [i \in 1..Len(LineItems(data)) |->
                 InventoryRow(LineItems(data)[i], InvoiceRef(data), InvoiceDate(data))]]

Confirm(edited_entries) ==
    /\ IF edited_entries = << >>
       THEN /\ last' = [op |-> "Confirm", msg |-> "warning"]
            /\ UNCHANGED <<ledger, inventory, saves>>
       ELSE /\ saves < MaxSaves
            /\ saves' = saves + 1
            /\ ledger' = SavedLedger(ledger, edited_entries, extracted_data)
            /\ inventory' = IF SyncsInventory(category)
                            THEN SavedInventory(inventory, extracted_data)
                            ELSE inventory
            /\ last' = [op |-> "Confirm", msg |-> "success"]
    /\ UNCHANGED <<invoice_text, extracted_data, journal_entries, category,
                   extracted_from, suggested_for>>
    /\ UNCHANGED tab_vars

----------------------------------------------------------------------------
(* The session: every handler runs to completion before the next starts *)

\* The files outlive a session: a session starts with no files or with the
\* files an earlier session's Confirm left behind.
EarlierData == [invoice_number |-> "INV-0", invoice_date |-> "2023-12-01",
                line_items |-> <<NewItem("Bolt", 1, 500)>>]

EarlierEntries == SuggestedEntries("Inventory Purchases", 500)

Tabs == {1, 2}

Init ==
    /\ invoice_text = ""
    /\ extracted_data = EmptyDict
    /\ journal_entries = << >>
    /\ category = NoCategory
    /\ \/ ledger = NoFile /\ inventory = NoFile
       \/ /\ ledger = SavedLedger(NoFile, EarlierEntries, EarlierData)
          /\ inventory = SavedInventory(NoFile, EarlierData)
    /\ last = [op |-> "start", msg |-> "none"]
    /\ extracted_from = "(nothing extracted)"
    /\ suggested_for = "(nothing suggested)"
    /\ saves = 0
    /\ tab_pc = [t \in Tabs |-> "idle"]
    /\ tab_session = [t \in Tabs |-> EmptyDict]
    /\ tab_existing = [t \in Tabs |-> NoFile]
    /\ acked = ledger.rows
    /\ overlapped = FALSE

Next ==
    \/ \E text \in Texts : Upload(text)
    \/ UploadError
    \/ \E reply \in ExtractReplies : ExtractFields(reply)
    \/ \E desc \in ItemDescriptions, qty \in ItemQuantities, amount \in ItemAmounts :
         AddItem(desc, qty, amount)
    \/ \E idx \in 1..MaxItems : DeleteItem(idx)
    \/ ProcessInvoice(Get(extracted_data, "invoice_number", ""),
                      Get(extracted_data, "vendor_name", Txt(0, "", 0)))
    \/ \E reply \in SuggestReplies : Suggest(reply)
    \/ \E edited \in EditorResults(journal_entries) : Confirm(edited)

Spec == Init /\ [][Next]_vars

----------------------------------------------------------------------------
(* Two browser tabs on the same files: Confirm is read, compute, overwrite *)
(* with no lock, so the handlers of two tabs can interleave at the file    *)
(* operations.                                                             *)

\* What a tab's Confirm reads from its own session: the edited entries, the
\* extracted data and the category.
TabSessions ==
    {[entries |-> SuggestedEntries("IT Services", 100000),
      data |-> [invoice_number |-> "INV-1", invoice_date |-> "Jan 5, 2024"],
      category |-> "IT Services"],
     [entries |-> SuggestedEntries("Inventory Purchases", 0),
      data |-> [invoice_number |-> "INV-2",
                line_items |-> <<NewItem("Bolt", 1, 500)>>],
      category |-> "Inventory Purchases"]}

\* Confirms that have started and not yet shown "Ledger updated."
Pending == Cardinality({t \in Tabs : tab_pc[t] = "write ledger"})

\* pd.read_excel(LEDGER_FILE), or the empty frame
TabReadLedger(t, s) ==
    /\ tab_pc[t] = "idle"
    /\ Len(acked) \div 2 + Pending < MaxTabSaves
    /\ tab_session' = [tab_session EXCEPT ![t] = s]
    /\ tab_existing' = [tab_existing EXCEPT ![t] = ledger]
    /\ tab_pc' = [tab_pc EXCEPT ![t] = "write ledger"]
    /\ overlapped' = (overlapped \/ \E u \in Tabs \ {t} : tab_pc[u] /= "idle")
    /\ UNCHANGED <<ledger, inventory, acked>>
    /\ UNCHANGED session_vars

\* combined.to_excel(LEDGER_FILE), then "Ledger updated."
TabWriteLedger(t) ==
    /\ tab_pc[t] = "write ledger"
    /\ ledger' = SavedLedger(tab_existing[t], tab_session[t].entries,
                             tab_session[t].data)
    /\ acked' = acked \o NewRows(tab_session[t].entries, LastSr(tab_existing[t]),
                                 InvoiceDate(tab_session[t].data),
                                 InvoiceRef(tab_session[t].data))
    /\ tab_pc' = [tab_pc EXCEPT ![t] =
                    IF SyncsInventory(tab_session[t].category)
                    THEN "read inventory" ELSE "idle"]
    /\ UNCHANGED <<inventory, tab_session, tab_existing, overlapped>>
    /\ UNCHANGED session_vars

\* pd.read_excel(INVENTORY_FILE), or the empty frame
TabReadInventory(t) ==
    /\ tab_pc[t] = "read inventory"
    /\ tab_existing' = [tab_existing EXCEPT ![t] = inventory]
    /\ tab_pc' = [tab_pc EXCEPT ![t] = "write inventory"]
    /\ UNCHANGED <<ledger, inventory, tab_session, acked, overlapped>>
    /\ UNCHANGED session_vars

\* inv_df.to_excel(INVENTORY_FILE)
TabWriteInventory(t) ==
    /\ tab_pc[t] = "write inventory"
    /\ inventory' = SavedInventory(tab_existing[t], tab_session[t].data)
    /\ tab_pc' = [tab_pc EXCEPT ![t] = "idle"]
    /\ UNCHANGED <<ledger, tab_session, tab_existing, acked, overlapped>>
    /\ UNCHANGED session_vars

TabsNext ==
    \/ \E t \in Tabs, s \in TabSessions : TabReadLedger(t, s)
    \/ \E t \in Tabs : TabWriteLedger(t)
    \/ \E t \in Tabs : TabReadInventory(t)
    \/ \E t \in Tabs : TabWriteInventory(t)

TabsSpec == Init /\ [][TabsNext]_vars

----------------------------------------------------------------------------
(* Properties *)

IsPrefix(s, t) == Len(s) <= Len(t) /\ SubSeq(t, 1, Len(s)) = s

Saved == last.op = "Confirm" /\ last.msg = "success"

\* C1: the sr_no column of the persisted ledger is 1, 2, ..., R in row order:
\* the first row written to a nonexistent ledger gets 1, and no Confirm leaves
\* a gap or a duplicate.
C1_SrNoIsRowPosition ==
    /\ \A i \in 1..Len(ledger.rows) : ledger.rows[i].sr_no = i
    /\ ledger.exists => Len(ledger.rows) >= 2

\* A Confirm has appended to a ledger that an earlier Confirm wrote.
C1_Witness ==
    /\ Saved
    /\ Len(ledger.rows) = 4
    /\ ledger.rows[2].reference = "INV-0"
    /\ ledger.rows[3].reference /= "INV-0"

RowsAsClaimed(entries) ==
    LET n == Len(ledger.rows)
        rows == ledger'.rows
    IN  /\ Len(rows) = n + 2 * Len(entries)
        /\ \A i \in 1..Len(entries) :
             LET d == rows[n + 2 * i - 1]
                 c == rows[n + 2 * i]
             IN  /\ d.description = entries[i].debit
                 /\ d.debit = Some(entries[i].amount)
                 /\ d.credit = None
                 /\ c.description = entries[i].credit
                 /\ c.credit = Some(entries[i].amount)
                 /\ c.debit = None
                 /\ c.sr_no = d.sr_no + 1
                 /\ c.date = d.date
                 /\ c.reference = d.reference
        /\ \A i \in 1..Len(rows) : rows[i].debit.set /= rows[i].credit.set

C3_FilesChangeOnlyInConfirm ==
    [][/\ IsPrefix(ledger.rows, ledger'.rows)
       /\ ledger.exists => ledger'.exists
       /\ last'.op /= "Confirm" => ledger' = ledger /\ inventory' = inventory]_vars

\* After a Confirm onto an existing ledger the session went on to another
\* invoice.
C3_Witness ==
    /\ saves = 1
    /\ Len(ledger.rows) > 2
    /\ ledger.rows[1].reference = "INV-0"
    /\ last.op = "Suggest"
    /\ last.msg = "success"

\* C8: a failed field extraction shows an error and leaves the session's
\* extracted data, journal entries and category as they were.
C8_FailedExtractionStoresNothing ==
    [][last'.op = "Extract"
       => /\ last'.msg \in {"error", "success"}
          /\ last'.msg = "error"
             => /\ extracted_data' = extracted_data
                /\ journal_entries' = journal_entries
                /\ category' = category
          /\ last'.msg = "success"
             => \E r \in ExtractReplies :
                  /\ ExtractOutcome(r).ok
                  /\ extracted_data' = ExtractOutcome(r).data]_vars

\* An extraction failed in a session that already held an invoice and its
\* suggested entries.
C8_Witness ==
    /\ last = [op |-> "Extract", msg |-> "error"]
    /\ Truthy(extracted_data)
    /\ journal_entries /= << >>
    /\ category /= NoCategory

\* C10: when no Confirm starts while another tab's Confirm is running, the
\* ledger holds the rows of every successful Confirm in confirm order; when
\* two Confirms interleave, a Confirm that reported success can be missing.
C10_SerializedConfirmsKeepEveryRow == ~overlapped => ledger.rows = acked

\* Lost update: both tabs are done, both showed "Ledger updated.", and a row
\* one of them reported is not in the ledger.
C10_Witness ==
    /\ overlapped
    /\ \A t \in Tabs : tab_pc[t] = "idle"
    /\ \E i \in 1..Len(acked) :
         \A j \in 1..Len(ledger.rows) : ledger.rows[j] /= acked[i]

StoredTotal == AmountOf(Get(extracted_data, "total_amount", JNum(0)))

StoredVendor == Strip(Get(extracted_data, "vendor_name", Txt(0, "", 0)))

\* The category the resolution order of C4 names: the table's, else the
\* collaborator's trimmed label, else "Uncategorized" when the call fails or
\* its answer is unusable (nothing is left of it after trimming).
ClaimedCategory(reply) ==
    IF StoredVendor \in DOMAIN VENDOR_CATEGORY_MAP
    THEN VENDOR_CATEGORY_MAP[StoredVendor]
    ELSE IF reply.kind /= "text" \/ Strip(reply.label) = "" THEN "Uncategorized"
    ELSE Strip(reply.label)

\* C4: with invoice data present, 'Suggest Journal Entries' ends with exactly
\* one entry {debit: category, credit: "Accounts Payable", amount: total},
\* the category being the table's, else the collaborator's trimmed label, and
\* "Uncategorized" when the call fails or returns unusable output.
C4_SuggestFollowsResolutionOrder ==
    [][\A r \in SuggestReplies :
         last'.op = "Suggest" /\ Truthy(extracted_data) /\ Suggest(r)
         => journal_entries' =
              <<[debit |-> ClaimedCategory(r), credit |-> "Accounts Payable",
                 amount |-> StoredTotal]>>]_vars

\* C5: after a line item is added or removed, the total_amount that 'Suggest
\* Journal Entries' reads equals the sum of the current line items' amounts.
C5_TotalIsSumOfLineItems ==
    last.op \in {"AddItem", "DeleteItem"} => StoredTotal = total_amount

\* C6: Confirm appends to the inventory only when the category resolved for
\* the invoice being written is "Inventory Purchases", and then it appends one
\* row per line item of that invoice.
C6_InventoryOnlyForCurrentInvoice ==
    [][inventory' /= inventory
       => /\ suggested_for = extracted_from
          /\ category = "Inventory Purchases"
          /\ Len(inventory'.rows) =
               Len(inventory.rows) + Len(LineItems(extracted_data))]_vars

\* C7: rows are persisted only by a Confirm taken from EntriesSuggested: an
\* invoice has been extracted and entries have been suggested for it.
C7_ConfirmOnlyAfterSuggest ==
    [][ledger' /= ledger
       => Truthy(extracted_data) /\ suggested_for = extracted_from]_vars

\* The line item C9 describes: an amount that does not parse is 0.0, a
\* quantity that is absent or not a number is 1.
ClaimedItem(item) ==
    LET n == NormalizeItem(Put(item, "quantity", JNum(1)))
        q == ParseInt(Get(item, "quantity", JNum(1)))
        amount == IF n.ok THEN n.item.amount ELSE 0
        quantity == IF q.ok THEN q.val ELSE 1
    IN  Put(Put(Put(item, "amount", amount), "quantity", quantity),
            "unit_cost", UnitCost(amount, quantity))

\* C9: a field that cannot be parsed is never an error: extraction of a JSON
\* object stores its line items with 0.0 for an unparseable amount and 1 for a
\* missing or non-numeric quantity, and suggestion reads an unparseable
\* total_amount as 0.0.
C9_UnparseableFieldsFallBack ==
    [][/\ \A r \in ExtractReplies :
            last'.op = "Extract" /\ r.kind = "object" /\ ExtractFields(r)
            => /\ last'.msg = "success"
               /\ LineItems(extracted_data') =
                    [i \in 1..Len(LineItems(r.data)) |->
                       ClaimedItem(LineItems(r.data)[i])]
       /\ \A r \in SuggestReplies :
            /\ last'.op = "Suggest"
            /\ Get(extracted_data, "total_amount", JNum(0)) = JStr(<<"n", "/", "a">>)
            /\ Suggest(r)
            => journal_entries'[1].amount = 0]_vars

====
